---------------------------- MODULE Spec2Model ----------------------------
(***************************************************************************)
(* A model of the ECOSTRESS download / metadata-reconciliation / upload    *)
(* scripts: csv_handler.py (the metadata table reconciler), metadata.py    *)
(* (filename parser, orbit extractor, tile codec), download.py (per-file   *)
(* retrieval), main.py and upload.py (the run and its upload workflow).    *)
(*                                                                         *)
(* Representation.  A Python string is a sequence of one-character TLA+    *)
(* strings wherever the code looks inside it (filenames, id_no, tile       *)
(* codes, EPSG codes, file-type suffixes); a date-time text or the decimal *)
(* text of a number, which the code only passes on or parses as a whole,   *)
(* is a sequence of one or two opaque tokens.  A Python value is a record  *)
(* [t, v]: t its type ("str", "int", "none"), v its text.  A Python dict   *)
(* is a record [k, v]: k the keys in insertion order, v the key -> value   *)
(* function.                                                               *)
(***************************************************************************)
EXTENDS Integers, Sequences, FiniteSets, TLC

\* ------------------------------------------------------------------------
\* Bounds of the model
\* ------------------------------------------------------------------------
MaxRows == 2

MaxRecords == 2

\* ------------------------------------------------------------------------
\* Python values
\* ------------------------------------------------------------------------
S(text) == [t |-> "str", v |-> text]

I(digits) == [t |-> "int", v |-> <<digits>>]

None == [t |-> "none", v |-> <<>>]

Empty == S(<<>>)

\* bool(value): None, '' and 0 are false
Truthy(val) ==
    \/ val.t = "str" /\ val.v # <<>>
    \/ val.t = "int" /\ val.v # <<"0">>

\* what csv.DictWriter writes for a cell: '' for None, str(value) otherwise;
\* what csv.DictReader reads back is always a str
CsvStr(val) == IF val.t = "none" THEN <<>> ELSE val.v

\* ------------------------------------------------------------------------
\* Python str operations
\* ------------------------------------------------------------------------
Digits == {"0", "1", "2", "3", "4", "5", "6", "7", "8", "9"}

Upper == {"A", "B", "C", "D", "E", "F", "G", "H", "I", "J", "K", "L", "M",
          "N", "O", "P", "Q", "R", "S", "T", "U", "V", "W", "X", "Y", "Z"}

\* s in t
IsSubstring(s, t) ==
    \E i \in 0..(Len(t) - Len(s)) : SubSeq(t, i + 1, i + Len(s)) = s

\* t.endswith(s)
EndsWith(t, s) ==
    /\ Len(s) <= Len(t)
    /\ SubSeq(t, Len(t) - Len(s) + 1, Len(t)) = s

\* t.replace(pat, rep), pat non-empty: leftmost non-overlapping occurrences
RECURSIVE Replace(_, _, _)
Replace(t, pat, rep) ==
    IF t = <<>> THEN <<>>
    ELSE IF Len(pat) <= Len(t) /\ SubSeq(t, 1, Len(pat)) = pat
         THEN rep \o Replace(SubSeq(t, Len(pat) + 1, Len(t)), pat, rep)
         ELSE <<Head(t)>> \o Replace(Tail(t), pat, rep)

\* re.search(r'_(\d{2}[A-Z]{3})_', t) matches at position i
MgrsMatchAt(t, i) ==
    /\ i + 6 <= Len(t)
    /\ t[i] = "_"
    /\ t[i + 1] \in Digits /\ t[i + 2] \in Digits
    /\ t[i + 3] \in Upper /\ t[i + 4] \in Upper /\ t[i + 5] \in Upper
    /\ t[i + 6] = "_"

MgrsMatches(t) == {i \in 1..Len(t) : MgrsMatchAt(t, i)}

\* group(1) of the leftmost match
MgrsGroup(t) ==
    LET i == CHOOSE m \in MgrsMatches(t) : \A n \in MgrsMatches(t) : m <= n
    IN SubSeq(t, i + 1, i + 5)

\* ------------------------------------------------------------------------
\* metadata.py: tile codec
\* ------------------------------------------------------------------------
NorthBands == {"N", "P", "Q", "R", "S", "T", "U", "V", "W", "X"}

\* get_epsg_from_mgrs with every letter from N to X as a northern band
get_epsg_from_mgrs_letter_range(mgrs_tile) ==
    IF mgrs_tile = <<>> \/ Len(mgrs_tile) < 3 THEN <<>>
    ELSE LET utm_zone == SubSeq(mgrs_tile, 1, 2)
         IN IF mgrs_tile[3] \in NorthBands \cup {"O"}
            THEN <<"E", "P", "S", "G", "3", "2", "6">> \o utm_zone
            ELSE <<"E", "P", "S", "G", "3", "2", "7">> \o utm_zone

get_epsg_from_mgrs(mgrs_tile) ==
    IF mgrs_tile = <<>> \/ Len(mgrs_tile) < 3 THEN <<>>
    ELSE LET utm_zone == SubSeq(mgrs_tile, 1, 2)
         IN IF mgrs_tile[3] \in NorthBands
            THEN <<"E", "P", "S", "G", "3", "2", "6">> \o utm_zone
            ELSE <<"E", "P", "S", "G", "3", "2", "7">> \o utm_zone

\* ------------------------------------------------------------------------
\* Python dict operations
\* ------------------------------------------------------------------------
EmptyDict == [k |-> <<>>, v |-> <<>>]

Has(d, key) == key \in DOMAIN d.v

\* d[key] = val: overwrite in place, or insert at the end
DictSet(d, key, val) ==
    IF Has(d, key)
    THEN [k |-> d.k, v |-> [d.v EXCEPT ![key] = val]]
    ELSE [k |-> Append(d.k, key), v |-> (key :> val) @@ d.v]

\* dict literal from a sequence of <<key, value>> pairs
RECURSIVE MkDict(_)
MkDict(pairs) ==
    IF pairs = <<>> THEN EmptyDict
    ELSE LET n == Len(pairs)
         IN DictSet(MkDict(SubSeq(pairs, 1, n - 1)), pairs[n][1], pairs[n][2])

KeySet(d) == DOMAIN d.v

\* ------------------------------------------------------------------------
\* csv_handler.py: the metadata table reconciler
\* ------------------------------------------------------------------------
field_list ==
    << "system:time_start", "system:time_end", "EPSG", "band_type",
       "attr_identifier_product_doi", "attr_identifier_product_doi_authority",
       "begin_orbit_number", "beginning_date_time", "collection_concept_id",
       "concept_id", "concept_type", "day_night_flag", "east_lon",
       "end_orbit_number", "ending_date_time", "format", "granule_ur",
       "mgrs_tile", "native_id", "north_lat", "orbit_number",
       "orbit_number_from_filename", "parameter_names", "pge_version",
       "platform_short_name", "processing_ID", "processing_level",
       "production_date_time", "provider_date_insert", "provider_date_update",
       "provider_id", "revision_date", "revision_id", "sensor", "short_name",
       "size_mb", "south_lat", "time_start", "version", "version_from_filename",
       "west_lon", "scene", "orbit_scene" >>

Vocabulary == {field_list[i] : i \in DOMAIN field_list}

\* the vocabulary fields a row lacks, in field_list order
NewFields(row) == SelectSeq(field_list, LAMBDA f : ~Has(row, f))

\* for field in field_list: row[field] = ''
\* (an existing key keeps its place, a new key is inserted at the end)
ResetFields(row) ==
    [k |-> row.k \o NewFields(row),
     v |-> [c \in KeySet(row) \cup Vocabulary |->
              IF c \in Vocabulary THEN Empty ELSE row.v[c]]]

\* the same loop written with setdefault: keeps what a column held
KeepFields(row) ==
    [k |-> row.k \o NewFields(row),
     v |-> [c \in KeySet(row) \cup Vocabulary |->
              IF Has(row, c) THEN row.v[c] ELSE Empty]]

initialize_metadata_fields_keep(rows) ==
    [i \in DOMAIN rows |-> KeepFields(rows[i])]

initialize_metadata_fields(rows) ==
    [i \in DOMAIN rows |-> ResetFields(rows[i])]

\* datetime.fromisoformat(text).timestamp() * 1000 for the date-times of the
\* model; any other text raises ValueError
IsoTable ==
    (<<"2025-01-01T12:00:00", "+00:00">> :> "1735732800000")
    @@ (<<"2025-01-01T12:00:52", "+00:00">> :> "1735732852000")

\* the text survives .replace('Z', '+00:00') and fromisoformat; a value
\* that is no str has no .replace and raises as well
IsoParses(val) ==
    /\ val.t = "str"
    /\ Replace(val.v, <<"Z">>, <<"+00:00">>) \in DOMAIN IsoTable

IsoMillis(val) == I(IsoTable[Replace(val.v, <<"Z">>, <<"+00:00">>)])

\* 'key' in granule_metadata and granule_metadata['key']
Present(gm, key) == Has(gm, key) /\ Truthy(gm.v[key])

\* lines 112-130: the system time fields
SystemTime(row, gm) ==
    IF Present(gm, "time_start")
    THEN DictSet(DictSet(row, "system:time_start", gm.v["time_start"]),
                 "system:time_end", gm.v["time_start"])
    ELSE IF Present(gm, "beginning_date_time")
    THEN IF ~IsoParses(gm.v["beginning_date_time"]) THEN row
         ELSE LET r == DictSet(row, "system:time_start",
                               IsoMillis(gm.v["beginning_date_time"]))
              IN IF Present(gm, "ending_date_time")
                 THEN IF IsoParses(gm.v["ending_date_time"])
                      THEN DictSet(r, "system:time_end",
                                   IsoMillis(gm.v["ending_date_time"]))
                      ELSE r
                 ELSE DictSet(r, "system:time_end", r.v["system:time_start"])
    ELSE row

\* lines 136-139: EPSG from the tile code
TileEpsg(row, gm) ==
    IF Present(gm, "mgrs_tile")
    THEN LET epsg == get_epsg_from_mgrs(gm.v["mgrs_tile"].v)
         IN IF epsg # <<>> THEN DictSet(row, "EPSG", S(epsg)) ELSE row
    ELSE row

\* line 143 without the membership test
TransferGuardAnyKey(row, key, value) == value # None

\* line 143: if value is not None and key in row
TransferGuard(row, key, value) == value # None /\ Has(row, key)

\* lines 142-144: for key, value in granule_metadata.items()
RECURSIVE TransferAll(_, _, _)
TransferAll(row, gm, n) ==
    IF n = 0 THEN row
    ELSE LET r == TransferAll(row, gm, n - 1)
             key == gm.k[n]
         IN IF TransferGuard(r, key, gm.v[key])
            THEN DictSet(r, key, gm.v[key])
            ELSE r

update_row_with_metadata(row, granule_metadata, file_type) ==
    LET r1 == SystemTime(row, granule_metadata)
        r2 == DictSet(r1, "band_type", S(file_type))
        r3 == TileEpsg(r2, granule_metadata)
    IN TransferAll(r3, granule_metadata, Len(granule_metadata.k))

\* row['id_no'] in filename
RowMatches(row, filename) == IsSubstring(row.v["id_no"].v, filename)

\* the inner loop of lines 85-87 for one row
RECURSIVE ApplyRecords(_, _, _)
ApplyRecords(row, downloaded_files, n) ==
    IF n = 0 THEN row
    ELSE LET r == ApplyRecords(row, downloaded_files, n - 1)
             rec == downloaded_files[n]
         IN IF RowMatches(r, rec.filename)
            THEN update_row_with_metadata(r, rec.granule_metadata, rec.file_type)
            ELSE r

\* a populate that keeps only the rows some record matched
populate_from_downloaded_files_matched(rows, downloaded_files) ==
    LET all == [i \in DOMAIN rows |->
                   ApplyRecords(rows[i], downloaded_files, Len(downloaded_files))]
    IN SelectSeq(all, LAMBDA r :
           \E n \in DOMAIN downloaded_files :
               RowMatches(r, downloaded_files[n].filename))

populate_from_downloaded_files(rows, downloaded_files) ==
    [i \in DOMAIN rows |->
        ApplyRecords(rows[i], downloaded_files, Len(downloaded_files))]

DotTif == <<".", "t", "i", "f">>

\* line 95 without the suffix test
IsTifAny(filename) == TRUE

\* line 95: filename.endswith('.tif')
IsTif(filename) == EndsWith(filename, DotTif)

\* lines 97-106 for one row and one file
FolderUpdate(row, folder_type, filename) ==
    IF RowMatches(row, filename)
    THEN LET r1 == DictSet(row, "band_type", S(Replace(folder_type, DotTif, <<>>)))
         IN IF MgrsMatches(filename) # {}
            THEN LET mgrs_tile == MgrsGroup(filename)
                     r2 == DictSet(r1, "mgrs_tile", S(mgrs_tile))
                     epsg == get_epsg_from_mgrs(mgrs_tile)
                 IN IF epsg # <<>> THEN DictSet(r2, "EPSG", S(epsg)) ELSE r2
            ELSE r1
    ELSE row

\* lines 94-95: the files of one folder, in os.listdir order
RECURSIVE ApplyFiles(_, _, _, _)
ApplyFiles(row, folder_type, files, n) ==
    IF n = 0 THEN row
    ELSE LET r == ApplyFiles(row, folder_type, files, n - 1)
         IN IF IsTif(files[n]) THEN FolderUpdate(r, folder_type, files[n]) ELSE r

\* lines 92-93: the folders of download_folders that exist
RECURSIVE ApplyFolders(_, _, _)
ApplyFolders(row, download_folders, n) ==
    IF n = 0 THEN row
    ELSE LET r == ApplyFolders(row, download_folders, n - 1)
             f == download_folders[n]
         IN IF f.exists
            THEN ApplyFiles(r, f.folder_type, f.files, Len(f.files))
            ELSE r

populate_from_folders(rows, download_folders) ==
    [i \in DOMAIN rows |->
        ApplyFolders(rows[i], download_folders, Len(download_folders))]

\* some row['id_no'] is evaluated by the populate step
EvaluatesIdNo(rows, download_folders, downloaded_files) ==
    /\ rows # <<>>
    /\ IF downloaded_files # <<>> THEN TRUE
       ELSE \E n \in DOMAIN download_folders :
               /\ download_folders[n].exists
               /\ \E m \in DOMAIN download_folders[n].files :
                      IsTif(download_folders[n].files[m])

\* KeyError: 'id_no' in lines 86 / 97
PopulateRaises(rows, download_folders, downloaded_files) ==
    /\ EvaluatesIdNo(rows, download_folders, downloaded_files)
    /\ ~Has(rows[1], "id_no")

\* ------------------------------------------------------------------------
\* The table file on disk: exists, header (column names), rows (cell texts
\* in header order).  An empty file has no header and no rows.
\* ------------------------------------------------------------------------
MissingFile == [exists |-> FALSE, header |-> <<>>, rows |-> <<>>]

EmptyFile == [exists |-> TRUE, header |-> <<>>, rows |-> <<>>]

\* lines 32-34: csv.DictReader / list(reader)
Load(file) ==
    [i \in DOMAIN file.rows |->
        [k |-> file.header,
         v |-> [c \in {file.header[j] : j \in DOMAIN file.header} |->
                  S(file.rows[i][CHOOSE j \in DOMAIN file.header :
                                    file.header[j] = c])]]]

\* DictWriter: the cells of one row in fieldnames order, '' for a missing key
CellsOf(row, fieldnames) ==
    [j \in DOMAIN fieldnames |->
        IF Has(row, fieldnames[j]) THEN CsvStr(row.v[fieldnames[j]]) ELSE <<>>]

\* DictWriter raises ValueError for a row with a key outside fieldnames
FitsHeader(row, fieldnames) ==
    KeySet(row) \subseteq {fieldnames[j] : j \in DOMAIN fieldnames}

\* the rows written before the first row that does not fit
RECURSIVE FittingPrefix(_, _)
FittingPrefix(rows, fieldnames) ==
    IF rows = <<>> \/ ~FitsHeader(Head(rows), fieldnames) THEN <<>>
    ELSE <<Head(rows)>> \o FittingPrefix(Tail(rows), fieldnames)

WriteFaults == {"none", "write"}

Faults == WriteFaults \cup {"read"}

\* lines 46-50 with an empty table accepted: nothing but the header is due
PersistSkipEmpty(file, rows, fault) ==
    IF rows = <<>> THEN [ok |-> TRUE, file |-> EmptyFile]
    ELSE [ok |-> fault = "none",
          file |-> [exists |-> TRUE, header |-> rows[1].k,
                    rows |-> [i \in DOMAIN rows |-> CellsOf(rows[i], rows[1].k)]]]

\* lines 46-50 in append mode ('a'): the old lines stay, the rows are added
PersistAppend(file, rows, fault) ==
    IF rows = <<>> THEN [ok |-> FALSE, file |-> file]
    ELSE [ok |-> fault = "none",
          file |-> [exists |-> TRUE, header |-> rows[1].k,
                    rows |-> [i \in DOMAIN file.rows |->
                                 CellsOf(Load(file)[i], rows[1].k)]
                             \o [i \in DOMAIN rows |-> CellsOf(rows[i], rows[1].k)]]]

\* lines 46-50: open(mode='w') truncates, rows[0].keys() is the header, then
\* writeheader and writerows.  fault "write": an I/O error strikes before the
\* last row is written.
Persist(file, rows, fault) ==
    IF rows = <<>> THEN [ok |-> FALSE, file |-> EmptyFile]
    ELSE LET fieldnames == rows[1].k
             fit == FittingPrefix(rows, fieldnames)
             out == IF fault = "write"
                    THEN SubSeq(fit, 1, Len(fit) - 1)
                    ELSE fit
         IN [ok |-> fault = "none" /\ Len(fit) = Len(rows),
             file |-> [exists |-> TRUE, header |-> fieldnames,
                       rows |-> [i \in DOMAIN out |-> CellsOf(out[i], fieldnames)]]]

\* the outcome of one call: the file left on disk, the value returned, the
\* stage that ended the call and the rows as each stage left them
Outcome(file, ret, stage, loaded, initialized, populated) ==
    [file |-> file, ret |-> ret, stage |-> stage, loaded |-> loaded,
     initialized |-> initialized, populated |-> populated]

\* lines 40-43
Populate(rows, download_folders, downloaded_files) ==
    IF downloaded_files # <<>>
    THEN populate_from_downloaded_files(rows, downloaded_files)
    ELSE populate_from_folders(rows, download_folders)

\* the table opened for writing before the populate step
enhance_metadata_csv_write_first(file, download_folders, downloaded_files, fault) ==
    IF ~file.exists THEN Outcome(file, FALSE, "missing", <<>>, <<>>, <<>>)
    ELSE IF fault = "read" THEN Outcome(file, FALSE, "load", <<>>, <<>>, <<>>)
    ELSE LET loaded == Load(file)
             initialized == initialize_metadata_fields(loaded)
         IN IF PopulateRaises(initialized, download_folders, downloaded_files)
            THEN Outcome(EmptyFile, FALSE, "populate", loaded, initialized, <<>>)
            ELSE LET populated == Populate(initialized, download_folders,
                                           downloaded_files)
                     w == Persist(file, populated, fault)
                 IN Outcome(w.file, w.ok, IF w.ok THEN "done" ELSE "persist",
                            loaded, initialized, populated)

enhance_metadata_csv(file, download_folders, downloaded_files, fault) ==
    IF ~file.exists THEN Outcome(file, FALSE, "missing", <<>>, <<>>, <<>>)
    ELSE IF fault = "read" THEN Outcome(file, FALSE, "load", <<>>, <<>>, <<>>)
    ELSE LET loaded == Load(file)
             initialized == initialize_metadata_fields(loaded)
         IN IF PopulateRaises(initialized, download_folders, downloaded_files)
            THEN Outcome(file, FALSE, "populate", loaded, initialized, <<>>)
            ELSE LET populated == Populate(initialized, download_folders,
                                           downloaded_files)
                     w == Persist(file, populated, fault)
                 IN Outcome(w.file, w.ok, IF w.ok THEN "done" ELSE "persist",
                            loaded, initialized, populated)

\* ------------------------------------------------------------------------
\* Inputs of the reconciler: tables, download records, folders
\* ------------------------------------------------------------------------
IdABC == <<"A", "B", "C">>

IdAB == <<"A", "B">>

Ids == {IdABC, IdAB}

Old == <<"o", "l", "d">>

\* a table as the metadata-generation step leaves it
HeaderFresh == <<"id_no", "xsize">>

\* a table that already holds vocabulary columns and a dynamic attr_ column
HeaderEnhanced == <<"id_no", "band_type", "EPSG", "attr_x", "concept_id">>

\* a table without the join key
HeaderNoId == <<"xsize">>

RowsFor(header) ==
    IF header = HeaderFresh THEN {<<id, <<"7">>>> : id \in Ids}
    ELSE IF header = HeaderEnhanced THEN {<<id, Old, Old, Old, Old>> : id \in Ids}
    ELSE {<< <<"7">> >>}

TablesFor(header) ==
    {[exists |-> TRUE, header |-> header, rows |-> rows] :
        rows \in UNION {[1..n -> RowsFor(header)] : n \in 0..MaxRows}}

Tables ==
    {MissingFile, EmptyFile}
    \cup TablesFor(HeaderFresh) \cup TablesFor(HeaderEnhanced)
    \cup TablesFor(HeaderNoId)

\* "ABC_18TUN_LST.tif": contains ABC and AB, carries a tile code
FileABC ==
    <<"A", "B", "C", "_", "1", "8", "T", "U", "N", "_", "L", "S", "T",
      ".", "t", "i", "f">>

\* "XY_47MDU_QC.tif": contains no id of the tables, carries a southern tile code
FileXY ==
    <<"X", "Y", "_", "4", "7", "M", "D", "U", "_", "Q", "C", ".", "t", "i", "f">>

\* "AB.tif": contains AB, carries no tile code
FileAB == <<"A", "B", ".", "t", "i", "f">>

\* "ABC_18TUN_.txt": contains ABC and AB and a tile code, is no .tif
FileTxt ==
    <<"A", "B", "C", "_", "1", "8", "T", "U", "N", "_", ".", "t", "x", "t">>

LST == <<"L", "S", "T">>

QC == <<"Q", "C">>

Tile18TUN == <<"1", "8", "T", "U", "N">>

Epsg4326 == <<"E", "P", "S", "G", "4", "3", "2", "6">>

BeginZ == <<"2025-01-01T12:00:00", "Z">>

EndZ == <<"2025-01-01T12:00:52", "Z">>

NotADate == <<"not-a-date">>

\* FlatMetadata values: keys of the vocabulary and dynamic provider_date_ /
\* attr_ keys, as extract_granule_metadata builds them
MetaBand == MkDict(<< <<"band_type", S(LST)>> >>)

MetaTileEpsg ==
    MkDict(<< <<"band_type", S(LST)>>, <<"mgrs_tile", S(Tile18TUN)>>,
              <<"EPSG", S(Epsg4326)>>, <<"time_start", Empty>>,
              <<"beginning_date_time", S(BeginZ)>>,
              <<"ending_date_time", S(EndZ)>> >>)

MetaTimeStart ==
    MkDict(<< <<"concept_id", None>>, <<"granule_ur", S(FileAB)>>,
              <<"mgrs_tile", Empty>>, <<"scene", I("3")>>,
              <<"beginning_date_time", S(NotADate)>>,
              <<"time_start", I("1735732800000")>>,
              <<"provider_date_create", S(BeginZ)>>,
              <<"attr_x", S(<<"v">>)>> >>)

\* a DownloadRecord: (filename, destination_path, file type tag, metadata)
Record(filename, folder_path, file_type, granule_metadata) ==
    [filename |-> filename, folder_path |-> folder_path,
     file_type |-> file_type, granule_metadata |-> granule_metadata]

Base == <<"e", "c", "o">>

RecordPool ==
    { Record(FileABC, <<Base, QC>>, QC, MetaBand),
      Record(FileABC, <<Base, LST>>, LST, MetaTileEpsg),
      Record(FileAB, <<Base, QC>>, QC, MetaTimeStart) }

RecordLists == UNION {[1..n -> RecordPool] : n \in 0..MaxRecords}

Folder(folder_type, exists, files) ==
    [folder_type |-> folder_type, exists |-> exists, files |-> files]

\* download_folders as upload_to_gee passes it ({folder_name: folder_path}),
\* as the download paths name it ('LST.tif'), and absent or empty
FolderPool ==
    { <<>>,
      << Folder(LST, TRUE, <<FileABC, FileTxt, FileAB>>) >>,
      << Folder(QC \o DotTif, TRUE, <<FileXY, FileTxt, FileAB>>) >>,
      << Folder(LST, FALSE, <<>>), Folder(QC, TRUE, <<FileAB>>) >> }

\* ------------------------------------------------------------------------
\* download.py: inputs of download_data
\* ------------------------------------------------------------------------
MaxGranules == 2

\* config.FILE_TYPES
FILE_TYPES ==
    << <<"L", "S", "T", ".", "t", "i", "f">>,
       <<"L", "S", "T", "_", "e", "r", "r", ".", "t", "i", "f">>,
       <<"E", "m", "i", "s", "W", "B", ".", "t", "i", "f">>,
       <<"v", "i", "e", "w", "_", "z", "e", "n", "i", "t", "h", ".", "t", "i", "f">>,
       <<"h", "e", "i", "g", "h", "t", ".", "t", "i", "f">>,
       <<"Q", "C", ".", "t", "i", "f">>,
       <<"c", "l", "o", "u", "d", ".", "t", "i", "f">>,
       <<"w", "a", "t", "e", "r", ".", "t", "i", "f">> >>

\* file_type.split('.')[0]
TypeName(file_type) ==
    IF \E i \in DOMAIN file_type : file_type[i] = "."
    THEN SubSeq(file_type, 1,
                (CHOOSE i \in DOMAIN file_type :
                    /\ file_type[i] = "."
                    /\ \A j \in 1..(i - 1) : file_type[j] # ".") - 1)
    ELSE file_type

\* utils.create_download_paths: os.path.join(base_path, type_name)
create_download_paths(base_path, file_types) ==
    [i \in DOMAIN file_types |-> <<base_path, TypeName(file_types[i])>>]

\* "a_LST.tif", "a_LST_err.tif", "b_QC.tif" and "a.json"
NameLst == <<"a", "_">> \o FILE_TYPES[1]

NameErr == <<"a", "_">> \o FILE_TYPES[2]

NameQc == <<"b", "_">> \o FILE_TYPES[6]

NameJson == <<"a", ".", "j", "s", "o", "n">>

Names == {NameLst, NameErr, NameQc, NameJson}

\* a URL as url.split('/') sees it
Url(filename) == << <<"h", "t", "t", "p", "s", ":">>, <<>>, <<"h">>, filename >>

\* a granule: its GranuleUR and its data_links(access="external")
Granule(ur, links) == [ur |-> ur, links |-> links]

\* the same filename served from another host
MirrorUrl(filename) == << <<"h", "t", "t", "p", "s", ":">>, <<>>, <<"m">>, filename >>

GranulePool ==
    { Granule(<<"a">>, << Url(NameLst), Url(NameJson), Url(NameErr) >>),
      Granule(<<"b">>, << Url(NameQc) >>),
      Granule(<<"c">>, << MirrorUrl(NameLst) >>) }

\* search results: distinct granules, so distinct URLs
ResultLists ==
    {r \in UNION {[1..n -> GranulePool] : n \in 0..MaxGranules} :
        \A i, j \in DOMAIN r : i # j => r[i] # r[j]}

\* what the download keeps of extract_granule_metadata(granule)
MetadataOf(granule) == MkDict(<< <<"granule_ur", S(granule.ur)>> >>)

\* the first suffix of file_types the filename ends with, 0 if none
MatchingSuffix(filename, file_types) ==
    IF \E i \in DOMAIN file_types : EndsWith(filename, file_types[i])
    THEN CHOOSE i \in DOMAIN file_types :
            /\ EndsWith(filename, file_types[i])
            /\ \A j \in 1..(i - 1) : ~EndsWith(filename, file_types[j])
    ELSE 0

\* os.path.exists(target_file_path)
PathExists(disk, filename) == disk[filename] # "absent"

\* file_size >= 0 in place of line 74
SizeNotNegative(disk, filename) == disk[filename] \in {"empty", "full"}

\* line 74: file_size > 0
SizePositive(disk, filename) == disk[filename] = "full"

\* os.path.exists alone in place of line 129
VerifiedExists(disk, filename) == PathExists(disk, filename)

\* line 129: the download is verified
Verified(disk, filename) ==
    PathExists(disk, filename) /\ disk[filename] = "full"

\* what earthaccess.download can do: leave a file with content, leave a
\* zero-byte file, leave nothing, or raise with nothing or with a partial
\* file left on disk
FetchOutcomes == {"full", "empty", "nothing", "raise", "raise_partial"}

\* ------------------------------------------------------------------------
\* State
\* ------------------------------------------------------------------------
VARIABLES
    csv_file,           \* the metadata table on disk
    download_folders,   \* the folders of the run and their listings
    downloaded_files,   \* the DownloadRecords of the run
    last,               \* the latest enhance_metadata_csv call: the file
                        \* before it, the fault injected and its outcome
    prev_ret,           \* what the call before the latest returned
    results,            \* the search results download_data iterates over
    disk,               \* the download folders: filename -> absent/empty/full
    dl,                 \* download_data: position (pc, g, u) and counters
    log,                \* what download_data did, per URL, in order
    run,                \* main(): position, authentication results, files
    trace,              \* what main() did, in order
    granule,            \* the granule record and tile code under extraction
    metadata            \* what the extractors of metadata.py returned

vars == <<csv_file, download_folders, downloaded_files, last, prev_ret,
          results, disk, dl, log, run, trace, granule, metadata>>

csv_vars == <<csv_file, download_folders, last, prev_ret>>

dl_vars == <<results, disk, dl, log>>

main_vars == <<run, trace>>

md_vars == <<granule, metadata>>

NoCall ==
    [called |-> FALSE, before |-> MissingFile, fault |-> "none",
     out |-> Outcome(MissingFile, FALSE, "missing", <<>>, <<>>, <<>>)]

\* main() not started
NotRun ==
    [pc |-> "idle", action |-> "both", earthaccess_auth |-> FALSE,
     gee_auth |-> FALSE, inputs |-> <<>>, by_type |-> <<>>, folder |-> 1]

\* no granule under extraction, nothing extracted
NoGranule == [ur |-> <<>>, orbits |-> <<>>, tile |-> <<>>]

NotExtracted == [filename |-> <<>>, orbit |-> <<>>, epsg |-> <<>>]

DlIdle ==
    [pc |-> "idle", g |-> 1, u |-> 1, skipped_count |-> 0,
     download_count |-> 0, error_count |-> 0]

\* ------------------------------------------------------------------------
\* The reconciler called on a table, any number of times
\* ------------------------------------------------------------------------
\* download_folders is read only when downloaded_files is empty (line 40)
Init ==
    /\ csv_file \in Tables
    /\ downloaded_files \in RecordLists
    /\ download_folders \in
           IF downloaded_files = <<>> THEN FolderPool
           ELSE {<< Folder(LST, TRUE, <<FileABC, FileTxt, FileAB>>) >>}
    /\ last = NoCall
    /\ prev_ret = "none"
    /\ results = <<>>
    /\ disk = [n \in Names |-> "absent"]
    /\ dl = DlIdle
    /\ log = <<>>
    /\ run = NotRun
    /\ trace = <<>>
    /\ granule = NoGranule
    /\ metadata = NotExtracted

\* one call of enhance_metadata_csv(metadata_path, download_folders,
\* downloaded_files); fault is the I/O error that strikes, if any
Enhance(fault) ==
    /\ LET out == enhance_metadata_csv(csv_file, download_folders,
                                       downloaded_files, fault)
       IN /\ csv_file' = out.file
          /\ last' = [called |-> TRUE, before |-> csv_file, fault |-> fault,
                      out |-> out]
    /\ prev_ret' = IF ~last.called THEN "none"
                   ELSE IF last.out.ret THEN "True" ELSE "False"
    /\ UNCHANGED <<download_folders, downloaded_files>>
    /\ UNCHANGED <<dl_vars, main_vars, md_vars>>

Next == \E fault \in Faults : Enhance(fault)

Spec == Init /\ [][Next]_vars

\* ------------------------------------------------------------------------
\* download.py: download_data(results, FILE_TYPES, download_paths)
\* ------------------------------------------------------------------------
download_paths == create_download_paths(Base, FILE_TYPES)

InitDownload ==
    /\ results \in ResultLists
    /\ disk \in [Names -> {"absent", "empty", "full"}]
    /\ disk[NameJson] = "absent"
    /\ dl = [DlIdle EXCEPT !.pc = "granule"]
    /\ downloaded_files = <<>>
    /\ log = <<>>
    /\ csv_file = MissingFile
    /\ download_folders = <<>>
    /\ last = NoCall
    /\ prev_ret = "none"
    /\ run = NotRun
    /\ trace = <<>>
    /\ granule = NoGranule
    /\ metadata = NotExtracted

Filename(g, u) == LET url == results[g].links[u] IN url[Len(url)]

\* a step of download_data on URL u of granule g; seen: the state of the
\* target file that the step found (check, returned, raised)
Event(g, u, what, seen) == [g |-> g, u |-> u, what |-> what, seen |-> seen]

\* line 77 / lines 130-131
RecordFor(g, u) ==
    LET suffix == MatchingSuffix(Filename(g, u), FILE_TYPES)
    IN Record(Filename(g, u), download_paths[suffix],
              TypeName(FILE_TYPES[suffix]), MetadataOf(results[g]))

\* line 59-60: the next granule, its metadata extracted
StartGranule ==
    /\ dl.pc = "granule" /\ dl.g <= Len(results)
    /\ dl' = [dl EXCEPT !.pc = "url", !.u = 1]
    /\ UNCHANGED <<results, disk, log, downloaded_files>>
    /\ UNCHANGED <<csv_vars, main_vars, md_vars>>

\* line 62: the links of the granule are exhausted
EndGranule ==
    /\ dl.pc = "url" /\ dl.u > Len(results[dl.g].links)
    /\ dl' = [dl EXCEPT !.pc = "granule", !.g = dl.g + 1]
    /\ UNCHANGED <<results, disk, log, downloaded_files>>
    /\ UNCHANGED <<csv_vars, main_vars, md_vars>>

\* lines 63-95 for one URL, up to the call of earthaccess.download
ProcessUrl ==
    /\ dl.pc = "url" /\ dl.u <= Len(results[dl.g].links)
    /\ LET filename == Filename(dl.g, dl.u)
           suffix == MatchingSuffix(filename, FILE_TYPES)
           check == Event(dl.g, dl.u, "check", disk[filename])
       IN IF suffix = 0
          THEN /\ log' = Append(log, Event(dl.g, dl.u, "unrelated", "-"))
               /\ dl' = [dl EXCEPT !.u = dl.u + 1]
               /\ UNCHANGED <<disk, downloaded_files>>
          ELSE IF PathExists(disk, filename)
          THEN IF SizePositive(disk, filename)
               THEN /\ log' = log \o << check, Event(dl.g, dl.u, "skip", "-") >>
                    /\ downloaded_files' =
                          Append(downloaded_files, RecordFor(dl.g, dl.u))
                    /\ dl' = [dl EXCEPT !.u = dl.u + 1,
                                        !.skipped_count = dl.skipped_count + 1]
                    /\ UNCHANGED disk
               ELSE /\ disk' = [disk EXCEPT ![filename] = "absent"]
                    /\ log' = log \o << check, Event(dl.g, dl.u, "remove", "-"),
                                        Event(dl.g, dl.u, "fetch", "-") >>
                    /\ dl' = [dl EXCEPT !.pc = "download"]
                    /\ UNCHANGED downloaded_files
          ELSE /\ log' = log \o << check, Event(dl.g, dl.u, "fetch", "-") >>
               /\ dl' = [dl EXCEPT !.pc = "download"]
               /\ UNCHANGED <<disk, downloaded_files>>
    /\ UNCHANGED results
    /\ UNCHANGED <<csv_vars, main_vars, md_vars>>

\* lines 125-140, then download_count += 1: earthaccess.download returns or
\* raises, the file is verified and the record appended
DownloadReturns(outcome) ==
    /\ dl.pc = "download"
    /\ LET filename == Filename(dl.g, dl.u)
           after == [disk EXCEPT ![filename] =
                        IF outcome \in {"full", "empty"} THEN outcome
                        ELSE IF outcome = "raise_partial" THEN "full"
                        ELSE disk[filename]]
       IN /\ disk' = after
          /\ IF outcome \in {"raise", "raise_partial"}
             THEN /\ log' = Append(log, Event(dl.g, dl.u, "raised", after[filename]))
                  /\ UNCHANGED downloaded_files
             ELSE /\ log' = Append(log, Event(dl.g, dl.u, "returned", after[filename]))
                  /\ IF Verified(after, filename)
                     THEN downloaded_files' =
                             Append(downloaded_files, RecordFor(dl.g, dl.u))
                     ELSE UNCHANGED downloaded_files
    /\ dl' = [dl EXCEPT !.pc = "url", !.u = dl.u + 1,
                        !.download_count = dl.download_count + 1]
    /\ UNCHANGED results
    /\ UNCHANGED <<csv_vars, main_vars, md_vars>>

\* lines 97-104: every granule is done, the list is returned
ReturnDownloaded ==
    /\ dl.pc = "granule" /\ dl.g > Len(results)
    /\ dl' = [dl EXCEPT !.pc = "done"]
    /\ UNCHANGED <<results, disk, log, downloaded_files>>
    /\ UNCHANGED <<csv_vars, main_vars, md_vars>>

NextDownload ==
    \/ StartGranule
    \/ EndGranule
    \/ ProcessUrl
    \/ \E outcome \in FetchOutcomes : DownloadReturns(outcome)
    \/ ReturnDownloaded

SpecDownload == InitDownload /\ [][NextDownload]_vars

\* ------------------------------------------------------------------------
\* main.py, upload.py: one run of main()
\* ------------------------------------------------------------------------
MaxFolders == 2

\* the file types the run is configured with (a prefix of config.FILE_TYPES)
RunTypes == SubSeq(FILE_TYPES, 1, MaxFolders)

Actions == {"download", "upload", "both"}

\* what the user may type at the prompt
UserInputs == {"y", " Y ", "n", "yes", ""}

\* input(...).strip().lower()
StripLower(text) ==
    CASE text = " Y " -> "y"
      [] OTHER -> text

\* a step of main(): what was done, for which folder or file type (0: none),
\* and whether it succeeded
Ev(what, arg, ok) == [what |-> what, arg |-> arg, ok |-> ok]

\* main.authenticate_services(action); netrc, interactive and gee are what
\* authenticate_earthaccess("netrc"), authenticate_earthaccess("interactive")
\* and authenticate_gee would return, user_input is what the user types
authenticate_services(action, netrc, interactive, gee, user_input) ==
    LET earthdata == action \in {"download", "both"}
        logins == IF ~earthdata THEN <<>>
                  ELSE IF netrc THEN <<Ev("login", 1, TRUE)>>
                  ELSE <<Ev("login", 1, FALSE), Ev("login", 2, interactive)>>
        earthaccess_success == earthdata /\ (netrc \/ interactive)
    IN IF earthdata /\ ~netrc /\ ~interactive
       THEN [earthaccess |-> FALSE, gee |-> FALSE, events |-> logins]
       ELSE IF action \notin {"upload", "both"}
       THEN [earthaccess |-> earthaccess_success, gee |-> FALSE,
             events |-> logins]
       ELSE IF gee
       THEN [earthaccess |-> earthaccess_success, gee |-> TRUE,
             events |-> Append(logins, Ev("gee", 0, TRUE))]
       ELSE IF action = "both"
       THEN IF StripLower(user_input) = "y"
            THEN [earthaccess |-> TRUE, gee |-> FALSE,
                  events |-> logins \o <<Ev("gee", 0, FALSE),
                                         Ev("prompt", 0, TRUE)>>]
            ELSE [earthaccess |-> earthaccess_success, gee |-> FALSE,
                  events |-> logins \o <<Ev("gee", 0, FALSE),
                                         Ev("prompt", 0, FALSE)>>]
       ELSE [earthaccess |-> earthaccess_success, gee |-> FALSE,
             events |-> Append(logins, Ev("gee", 0, FALSE))]

\* what download_data does for the one URL of each file type: there is no
\* such URL, the file gets recorded, or its fetch fails
FetchRuns == [1..Len(RunTypes) -> {"none", "recorded", "failed"}]

\* main.download_workflow: the search, then the fetches one by one
download_workflow(fetched) ==
    LET steps == [i \in 1..Len(RunTypes) |->
                     Ev(IF fetched[i] = "none" THEN "none" ELSE "fetch",
                        i, fetched[i] = "recorded")]
        records == [i \in 1..Len(RunTypes) |->
                       [file_type |-> TypeName(RunTypes[i]),
                        recorded |-> fetched[i] = "recorded"]]
    IN [events |-> <<Ev("search", 0, TRUE)>>
                       \o SelectSeq(steps, LAMBDA e : e.what = "fetch"),
        downloaded_files |-> SelectSeq(records, LAMBDA r : r.recorded)]

\* utils.organize_files_by_type
organize_files_by_type(files) ==
    [t \in {files[j].file_type : j \in DOMAIN files} |->
        SelectSeq(files, LAMBDA r : r.file_type = t)]

\* downloaded_files_by_type.get(type_name, None); None is the empty sequence
\* (no list of the mapping is empty)
FilesForType(by_type, type_name) ==
    IF type_name \in DOMAIN by_type THEN by_type[type_name] ELSE <<>>

\* upload_to_gee without the early return of line 32
upload_to_gee_without_return(i, files_for_type, meta_ok, enhance_ret, up_ok) ==
    [events |-> <<Ev("getmeta", i, meta_ok),
                  Ev(IF files_for_type # <<>> THEN "enhance_records"
                     ELSE "enhance_folders", i, enhance_ret),
                  Ev("upload", i, up_ok)>>,
     ret |-> up_ok]

\* upload_to_gee with lines 35-39 and line 42 exchanged
upload_to_gee_upload_first(i, files_for_type, meta_ok, enhance_ret, up_ok) ==
    IF ~meta_ok
    THEN [events |-> <<Ev("getmeta", i, FALSE)>>, ret |-> FALSE]
    ELSE [events |-> <<Ev("getmeta", i, TRUE),
                       Ev("upload", i, up_ok),
                       Ev(IF files_for_type # <<>> THEN "enhance_records"
                          ELSE "enhance_folders", i, enhance_ret)>>,
          ret |-> up_ok]

\* upload.upload_to_gee for folder i: generate the metadata table, enhance
\* it, upload; meta_ok and up_ok say whether the external command exits
\* with zero, enhance_ret is what enhance_metadata_csv returns
upload_to_gee(i, files_for_type, meta_ok, enhance_ret, up_ok) ==
    IF ~meta_ok
    THEN [events |-> <<Ev("getmeta", i, FALSE)>>, ret |-> FALSE]
    ELSE [events |-> <<Ev("getmeta", i, TRUE),
                       Ev(IF files_for_type # <<>> THEN "enhance_records"
                          ELSE "enhance_folders", i, enhance_ret),
                       Ev("upload", i, up_ok)>>,
          ret |-> up_ok]

InitMain ==
    /\ run \in {[NotRun EXCEPT !.pc = "start", !.action = action] :
                    action \in Actions}
    /\ trace = <<>>
    /\ csv_file = MissingFile
    /\ download_folders = <<>>
    /\ downloaded_files = <<>>
    /\ last = NoCall
    /\ prev_ret = "none"
    /\ results = <<>>
    /\ disk = [n \in Names |-> "absent"]
    /\ dl = DlIdle
    /\ log = <<>>
    /\ granule = NoGranule
    /\ metadata = NotExtracted

\* main line 146
AuthenticateServices(netrc, interactive, gee, user_input) ==
    /\ run.pc = "start"
    /\ LET auth == authenticate_services(run.action, netrc, interactive, gee,
                                         user_input)
       IN /\ run' = [run EXCEPT !.pc = "authenticated",
                                !.earthaccess_auth = auth.earthaccess,
                                !.gee_auth = auth.gee,
                                !.inputs = <<[netrc |-> netrc,
                                              interactive |-> interactive,
                                              gee |-> gee,
                                              user_input |-> user_input]>>]
          /\ trace' = trace \o auth.events
    /\ UNCHANGED <<csv_vars, dl_vars, downloaded_files, md_vars>>

\* main lines 148-150
ExitUnauthenticated ==
    /\ run.pc = "authenticated"
    /\ ~run.earthaccess_auth /\ ~run.gee_auth
    /\ run' = [run EXCEPT !.pc = "exit"]
    /\ UNCHANGED <<trace, csv_vars, dl_vars, downloaded_files, md_vars>>

\* main lines 156-159
DownloadWorkflow(fetched) ==
    /\ run.pc = "authenticated"
    /\ run.earthaccess_auth \/ run.gee_auth
    /\ run.action \in {"download", "both"} /\ run.earthaccess_auth
    /\ LET done == download_workflow(fetched)
       IN /\ trace' = trace \o <<Ev("download_workflow", 0, TRUE)>>
                            \o done.events
          /\ run' = [run EXCEPT
                        !.pc = "downloaded",
                        !.by_type =
                            organize_files_by_type(done.downloaded_files)]
    /\ UNCHANGED <<csv_vars, dl_vars, downloaded_files, md_vars>>

\* main line 156, the condition false
SkipDownload ==
    /\ run.pc = "authenticated"
    /\ run.earthaccess_auth \/ run.gee_auth
    /\ ~(run.action \in {"download", "both"} /\ run.earthaccess_auth)
    /\ run' = [run EXCEPT !.pc = "downloaded"]
    /\ UNCHANGED <<trace, csv_vars, dl_vars, downloaded_files, md_vars>>

\* main lines 162-164: upload_workflow is entered
StartUpload ==
    /\ run.pc = "downloaded"
    /\ run.action \in {"upload", "both"} /\ run.gee_auth
    /\ run' = [run EXCEPT !.pc = "folders", !.folder = 1]
    /\ trace' = Append(trace, Ev("upload_workflow", 0, TRUE))
    /\ UNCHANGED <<csv_vars, dl_vars, downloaded_files, md_vars>>

\* upload_workflow lines 108-130 for one folder; listed: the folder exists
\* and is not empty
UploadFolder(listed, meta_ok, enhance_ret, up_ok) ==
    /\ run.pc = "folders" /\ run.folder <= Len(RunTypes)
    /\ LET i == run.folder
           files_for_type == FilesForType(run.by_type, TypeName(RunTypes[i]))
           up == upload_to_gee(i, files_for_type, meta_ok, enhance_ret, up_ok)
       IN trace' = IF listed
                   THEN trace \o <<Ev("folder", i, TRUE)>> \o up.events
                              \o <<Ev("result", i, up.ret)>>
                   ELSE Append(trace, Ev("folder", i, FALSE))
    /\ run' = [run EXCEPT !.folder = run.folder + 1]
    /\ UNCHANGED <<csv_vars, dl_vars, downloaded_files, md_vars>>

\* main lines 165-171: the upload is skipped or its folders are exhausted
Complete ==
    /\ \/ run.pc = "downloaded"
          /\ ~(run.action \in {"upload", "both"} /\ run.gee_auth)
       \/ run.pc = "folders" /\ run.folder > Len(RunTypes)
    /\ run' = [run EXCEPT !.pc = "done"]
    /\ UNCHANGED <<trace, csv_vars, dl_vars, downloaded_files, md_vars>>

NextMain ==
    \/ \E netrc \in BOOLEAN, interactive \in BOOLEAN, gee \in BOOLEAN,
          user_input \in UserInputs :
           AuthenticateServices(netrc, interactive, gee, user_input)
    \/ ExitUnauthenticated
    \/ \E fetched \in FetchRuns : DownloadWorkflow(fetched)
    \/ SkipDownload
    \/ StartUpload
    \/ \E listed \in BOOLEAN, meta_ok \in BOOLEAN, enhance_ret \in BOOLEAN,
          up_ok \in BOOLEAN :
           UploadFolder(listed, meta_ok, enhance_ret, up_ok)
    \/ Complete

SpecMain == InitMain /\ [][NextMain]_vars

\* ------------------------------------------------------------------------
\* metadata.py: the filename parser, the orbit extractor, the tile codec
\* ------------------------------------------------------------------------
\* t[i], or '' past the end
At(t, i) == IF i \in DOMAIN t THEN t[i] ELSE ""

\* the literal lit stands at position i of t
Lit(t, i, lit) ==
    /\ i + Len(lit) - 1 <= Len(t)
    /\ SubSeq(t, i, i + Len(lit) - 1) = lit

\* \d{n} at position i
AllDigits(t, i, n) == \A k \in 0..(n - 1) : At(t, i + k) \in Digits

\* the length of the longest run of digits at position i (what \d+ takes
\* when the next item of the pattern is not a digit)
DigitRun(t, i) ==
    CHOOSE n \in 0..Len(t) :
        AllDigits(t, i, n) /\ At(t, i + n) \notin Digits

\* the leftmost position of a non-empty set of match positions
First(positions) == CHOOSE i \in positions : \A j \in positions : i <= j

\* int(text) of a digit string: its decimal text without leading zeros
ParseInt(text) ==
    LET zeros == CHOOSE n \in 0..Len(text) :
                     /\ \A k \in 1..n : text[k] = "0"
                     /\ At(text, n + 1) # "0"
    IN [t |-> "int",
        v |-> IF zeros = Len(text) THEN <<"0">>
              ELSE SubSeq(text, zeros + 1, Len(text))]

\* re.search(r'T\d{6}_(\d{4}_\d{2})$', t): <<group(1)>>, or <<>>
SuffixGroup(t) ==
    LET at == {i \in DOMAIN t :
                  /\ t[i] = "T" /\ AllDigits(t, i + 1, 6)
                  /\ At(t, i + 7) = "_" /\ AllDigits(t, i + 8, 4)
                  /\ At(t, i + 12) = "_" /\ AllDigits(t, i + 13, 2)
                  /\ i + 14 = Len(t)}
    IN IF at = {} THEN <<>>
       ELSE <<SubSeq(t, First(at) + 8, First(at) + 14)>>

\* r'_LSTE_\d+_' matches at position i
LsteAt(t, i) ==
    /\ Lit(t, i, <<"_", "L", "S", "T", "E", "_">>)
    /\ DigitRun(t, i + 6) >= 1
    /\ At(t, i + 6 + DigitRun(t, i + 6)) = "_"

\* re.search(r'_LSTE_(\d+)_', t)
OrbitGroup(t) ==
    LET at == {i \in DOMAIN t : LsteAt(t, i)}
    IN IF at = {} THEN <<>>
       ELSE <<SubSeq(t, First(at) + 6,
                     First(at) + 5 + DigitRun(t, First(at) + 6))>>

\* r'ECOv\d+_' matches at position i
EcoAt(t, i) ==
    /\ Lit(t, i, <<"E", "C", "O", "v">>)
    /\ DigitRun(t, i + 4) >= 1
    /\ At(t, i + 4 + DigitRun(t, i + 4)) = "_"

\* re.search(r'ECOv(\d+)_', t)
VersionGroup(t) ==
    LET at == {i \in DOMAIN t : EcoAt(t, i)}
    IN IF at = {} THEN <<>>
       ELSE <<SubSeq(t, First(at) + 4,
                     First(at) + 3 + DigitRun(t, First(at) + 4))>>

\* re.search(r'ECOv\d+_(L\d[A-Z]?)_', t)
LevelGroup(t) ==
    LET level(i) == i + 5 + DigitRun(t, i + 4)
        long(i) == At(t, level(i) + 2) \in Upper /\ At(t, level(i) + 3) = "_"
        at == {i \in DOMAIN t :
                  /\ EcoAt(t, i)
                  /\ At(t, level(i)) = "L" /\ At(t, level(i) + 1) \in Digits
                  /\ long(i) \/ At(t, level(i) + 2) = "_"}
    IN IF at = {} THEN <<>>
       ELSE LET k == level(First(at))
            IN <<SubSeq(t, k, IF long(First(at)) THEN k + 2 ELSE k + 1)>>

\* r'_LSTE_\d+_\d{3}_' matches at position i
SceneAt(t, i) ==
    /\ LsteAt(t, i)
    /\ AllDigits(t, i + 7 + DigitRun(t, i + 6), 3)
    /\ At(t, i + 10 + DigitRun(t, i + 6)) = "_"

\* re.search(r'_LSTE_\d+_(\d{3})_', t)
SceneGroup(t) ==
    LET at == {i \in DOMAIN t : SceneAt(t, i)}
    IN IF at = {} THEN <<>>
       ELSE LET k == First(at) + 7 + DigitRun(t, First(at) + 6)
            IN <<SubSeq(t, k, k + 2)>>

\* re.search(r'_LSTE_(\d+_\d{3})_', t)
OrbitSceneGroup(t) ==
    LET at == {i \in DOMAIN t : SceneAt(t, i)}
    IN IF at = {} THEN <<>>
       ELSE <<SubSeq(t, First(at) + 6,
                     First(at) + 9 + DigitRun(t, First(at) + 6))>>

\* if match: metadata[key] = value
SetIfMatched(d, key, group, value) ==
    IF group = <<>> THEN d ELSE DictSet(d, key, value)

\* metadata._extract_filename_metadata
extract_filename_metadata(granule_ur) ==
    LET group(g) == IF g = <<>> THEN Empty ELSE S(g[1])
        m1 == SetIfMatched(EmptyDict, "processing_ID",
                           SuffixGroup(granule_ur),
                           group(SuffixGroup(granule_ur)))
        mgrs == IF MgrsMatches(granule_ur) = {} THEN <<>>
                ELSE <<MgrsGroup(granule_ur)>>
        m2 == SetIfMatched(m1, "mgrs_tile", mgrs, group(mgrs))
        m3 == SetIfMatched(m2, "orbit_number_from_filename",
                           OrbitGroup(granule_ur),
                           group(OrbitGroup(granule_ur)))
        m4 == SetIfMatched(m3, "version_from_filename",
                           VersionGroup(granule_ur),
                           group(VersionGroup(granule_ur)))
        m5 == SetIfMatched(m4, "processing_level", LevelGroup(granule_ur),
                           group(LevelGroup(granule_ur)))
        m6 == SetIfMatched(m5, "scene", SceneGroup(granule_ur),
                           IF SceneGroup(granule_ur) = <<>> THEN Empty
                           ELSE ParseInt(SceneGroup(granule_ur)[1]))
    IN SetIfMatched(m6, "orbit_scene", OrbitSceneGroup(granule_ur),
                    group(OrbitSceneGroup(granule_ur)))

\* d.update(e), the first n keys of e
RECURSIVE DictUpdate(_, _, _)
DictUpdate(d, e, n) ==
    IF n = 0 THEN d
    ELSE DictSet(DictUpdate(d, e, n - 1), e.k[n], e.v[e.k[n]])

\* the defaults that extract_granule_metadata sets before it parses
InitializedFields ==
    MkDict(<< <<"processing_ID", Empty>>, <<"mgrs_tile", Empty>>,
              <<"orbit_number_from_filename", Empty>>,
              <<"version_from_filename", Empty>>,
              <<"processing_level", Empty>> >>)

\* extract_granule_metadata with orbit_scene among the initialised fields
filename_derived_fields_orbit_scene_default(granule_ur) ==
    LET defaults == DictSet(InitializedFields, "orbit_scene", Empty)
    IN IF granule_ur # <<>>
       THEN LET parsed == extract_filename_metadata(granule_ur)
            IN DictUpdate(defaults, parsed, Len(parsed.k))
       ELSE defaults

\* extract_granule_metadata, lines 36-45: the filename-derived fields of the
\* FlatMetadata (no later line assigns them)
filename_derived_fields(granule_ur) ==
    IF granule_ur # <<>>
    THEN LET parsed == extract_filename_metadata(granule_ur)
         IN DictUpdate(InitializedFields, parsed, Len(parsed.k))
    ELSE InitializedFields

\* d.get(key, default)
Get(d, key, default) == IF Has(d, key) THEN d.v[key] ELSE default

\* metadata._extract_orbit_metadata; umm maps a section name to its list
extract_orbit_metadata(umm) ==
    LET m0 == MkDict(<< <<"orbit_number", Empty>>,
                        <<"begin_orbit_number", Empty>>,
                        <<"end_orbit_number", Empty>> >>)
        calc == Get(umm, "OrbitCalculatedSpatialDomains", <<>>)
        m1 == IF calc # <<>> /\ Has(calc[1], "BeginOrbitNumber")
              THEN LET b == Get(calc[1], "BeginOrbitNumber", Empty)
                       e == Get(calc[1], "EndOrbitNumber", Empty)
                   IN DictSet(DictSet(DictSet(m0, "begin_orbit_number", b),
                                      "end_orbit_number", e),
                              "orbit_number", b)
              ELSE m0
        par == Get(umm, "OrbitParameters", <<>>)
    IN IF /\ Has(umm, "OrbitParameters")
          /\ ~Truthy(m1.v["orbit_number"])
          /\ par # <<>> /\ Has(par[1], "OrbitNumber")
       THEN DictSet(m1, "orbit_number",
                    Get(par[1], "OrbitNumber", Empty))
       ELSE m1

\* a section of the record: <<>> when the record has no such key, <<list>>
\* otherwise
CalculatedDomains ==
    {<<>>, << <<>> >>, << <<EmptyDict>> >>,
     << <<MkDict(<< <<"BeginOrbitNumber", I("48")>> >>)>> >>}
    \cup {<< <<MkDict(<< <<"BeginOrbitNumber", b>>,
                         <<"EndOrbitNumber", I("49")>> >>)>> >> :
             b \in {Empty, I("0"), I("48"), S(<<"4", "8">>), None}}

OrbitParameters ==
    {<<>>, << <<>> >>, << <<EmptyDict>> >>,
     << <<MkDict(<< <<"OrbitNumber", I("7")>> >>)>> >>,
     << <<MkDict(<< <<"OrbitNumber", Empty>> >>)>> >>}

\* the orbit sections of a granule record
Umm(calc, par) ==
    LET u1 == IF calc = <<>> THEN EmptyDict
              ELSE DictSet(EmptyDict, "OrbitCalculatedSpatialDomains",
                           calc[1])
    IN IF par = <<>> THEN u1 ELSE DictSet(u1, "OrbitParameters", par[1])

UmmPool == {Umm(calc, par) : calc \in CalculatedDomains,
                             par \in OrbitParameters}

\* granule identifiers: the complete one of the provider and ones with
\* parts missing or different
UrPool ==
    LET version == <<"E", "C", "O", "v", "0", "0", "2">>
        level == <<"_", "L", "2", "T">>
        orbit == <<"_", "L", "S", "T", "E", "_", "0", "0", "0", "4", "8">>
        scene == <<"_", "0", "0", "3">>
        tile == <<"_", "1", "8", "T", "U", "N">>
        time == <<"_", "2", "0", "2", "5", "0", "1", "0", "1",
                  "T", "1", "2", "0", "0", "0", "0">>
        suffix == <<"_", "0", "7", "1", "2", "_", "0", "1">>
    IN {version \o level \o orbit \o scene \o tile \o time \o suffix,
        version \o level \o orbit \o tile \o time \o suffix,
        version \o level \o orbit \o scene \o tile \o time,
        version \o <<"_", "L", "2">> \o orbit \o <<"_", "0", "0", "0", "_">>,
        version \o <<"x">> \o tile \o <<"_">>,
        <<"E", "C", "O", "v", "1", "_">> \o time \o suffix,
        <<"g", "r", "a", "n", "u", "l", "e">>,
        <<>>}

\* tile designators
TilePool ==
    {<<>>, <<"1">>, <<"1", "T">>, <<"1", "8", "N">>, <<"1", "8", "M">>,
     <<"1", "8", "O", "A", "A">>, <<"1", "8", "x", "A", "A">>,
     <<"6", "0", "X", "Z", "Z">>, <<"4", "7", "M", "D", "U">>, Tile18TUN}

InitMetadata ==
    /\ granule \in [ur : UrPool, orbits : UmmPool, tile : TilePool]
    /\ metadata = NotExtracted
    /\ run = NotRun
    /\ trace = <<>>
    /\ csv_file = MissingFile
    /\ download_folders = <<>>
    /\ downloaded_files = <<>>
    /\ last = NoCall
    /\ prev_ret = "none"
    /\ results = <<>>
    /\ disk = [n \in Names |-> "absent"]
    /\ dl = DlIdle
    /\ log = <<>>

\* extract_granule_metadata lines 33-45 on the granule's identifier
ExtractFilename ==
    /\ metadata.filename = <<>>
    /\ metadata' = [metadata EXCEPT
                       !.filename = <<filename_derived_fields(granule.ur)>>]
    /\ UNCHANGED <<granule, csv_vars, dl_vars, downloaded_files, main_vars>>

\* extract_granule_metadata line 84 on the granule's record
ExtractOrbit ==
    /\ metadata.orbit = <<>>
    /\ metadata' = [metadata EXCEPT
                       !.orbit = <<extract_orbit_metadata(granule.orbits)>>]
    /\ UNCHANGED <<granule, csv_vars, dl_vars, downloaded_files, main_vars>>

\* get_epsg_from_mgrs on the tile designator
GetEpsg ==
    /\ metadata.epsg = <<>>
    /\ metadata' = [metadata EXCEPT
                       !.epsg = <<get_epsg_from_mgrs(granule.tile)>>]
    /\ UNCHANGED <<granule, csv_vars, dl_vars, downloaded_files, main_vars>>

NextMetadata == ExtractFilename \/ ExtractOrbit \/ GetEpsg

SpecMetadata == InitMetadata /\ [][NextMetadata]_vars

\* ------------------------------------------------------------------------
\* Properties of the reconciler
\* ------------------------------------------------------------------------
\* the latest call got as far as the persist step
ReachedPersist == last.called /\ last.out.stage \in {"persist", "done"}

\* the latest call returned True
Succeeded == last.called /\ last.out.ret

FromRecords == downloaded_files # <<>>

\* the records whose filename contains the id_no of a loaded row
MatchingRecords(row) ==
    {n \in DOMAIN downloaded_files :
        IsSubstring(row.v["id_no"].v, downloaded_files[n].filename)}

\* the metadata carries the key with a non-null value
Supplies(gm, key) == Has(gm, key) /\ gm.v[key] # None

\* C1: enhance_metadata_csv never creates or deletes rows: the rows handed
\* to the writer, and the rows on disk after a successful call, are as many
\* as the rows loaded and carry the same id_no values in the same order.
C1_RowsPreserved ==
    /\ ReachedPersist =>
         /\ Len(last.out.populated) = Len(last.out.loaded)
         /\ Len(last.out.loaded) = Len(last.before.rows)
         /\ \A i \in DOMAIN last.out.loaded :
               Has(last.out.loaded[i], "id_no") =>
                  /\ Has(last.out.populated[i], "id_no")
                  /\ last.out.populated[i].v["id_no"] = last.out.loaded[i].v["id_no"]
    /\ Succeeded =>
         /\ Len(csv_file.rows) = Len(last.before.rows)
         /\ \A i \in DOMAIN csv_file.rows :
               Has(last.out.loaded[i], "id_no") =>
                  Load(csv_file)[i].v["id_no"] = Load(last.before)[i].v["id_no"]

\* a successful call on two rows where one record matches both rows and one
\* row is matched by two records
C1_Witness ==
    /\ Succeeded /\ FromRecords
    /\ Len(last.out.loaded) = 2
    /\ \E n \in DOMAIN downloaded_files :
          \A i \in DOMAIN last.out.loaded : n \in MatchingRecords(last.out.loaded[i])
    /\ \E i \in DOMAIN last.out.loaded :
          Cardinality(MatchingRecords(last.out.loaded[i])) = 2
    /\ \E i \in DOMAIN last.out.loaded :
          Cardinality(MatchingRecords(last.out.loaded[i])) = 1

HeaderSet(file) == {file.header[j] : j \in DOMAIN file.header}

\* C2: when the table is persisted every row carries the key set of the
\* first row, the original columns plus the vocabulary: the populate step
\* neither adds a key to a row nor removes one.
C2_SameKeys ==
    ReachedPersist =>
        \A i \in DOMAIN last.out.populated :
            /\ KeySet(last.out.populated[i]) = KeySet(last.out.populated[1])
            /\ KeySet(last.out.populated[i]) = KeySet(last.out.initialized[i])
            /\ KeySet(last.out.populated[i]) = HeaderSet(last.before) \cup Vocabulary
            /\ last.out.populated[i].k = last.out.initialized[i].k

\* a successful call in which a record that carries a dynamic key outside
\* vocabulary and table (provider_date_create) was merged into a row
C2_Witness ==
    /\ Succeeded /\ FromRecords
    /\ \E i \in DOMAIN last.out.loaded :
          \E n \in MatchingRecords(last.out.loaded[i]) :
              /\ Has(downloaded_files[n].granule_metadata, "provider_date_create")
              /\ ~Has(last.out.populated[i], "provider_date_create")
              /\ Has(downloaded_files[n].granule_metadata, "attr_x")

\* the cell of row i, column c of the table on disk
Cell(file, i, c) == Load(file)[i].v[c].v

\* the rows matched by exactly one record, whose metadata sets band_type
RoundTripCases ==
    {i \in DOMAIN last.out.loaded :
        /\ Cardinality(MatchingRecords(last.out.loaded[i])) = 1
        /\ \A n \in MatchingRecords(last.out.loaded[i]) :
              Supplies(downloaded_files[n].granule_metadata, "band_type")}

TheRecord(i) ==
    downloaded_files[CHOOSE n \in DOMAIN downloaded_files :
                        n \in MatchingRecords(last.out.loaded[i])]

\* the columns update_row_with_metadata derives rather than copies
DerivedFrom(gm) ==
    (IF Present(gm, "time_start") \/ Present(gm, "beginning_date_time")
     THEN {"system:time_start", "system:time_end"} ELSE {})
    \cup (IF Present(gm, "mgrs_tile") THEN {"EPSG"} ELSE {})

\* C3 as stated: after a successful call, a row matched by exactly one
\* record whose metadata sets band_type holds that band_type, and every
\* other vocabulary column the metadata does not supply is empty.
C3_Original ==
    (Succeeded /\ FromRecords) =>
        \A i \in RoundTripCases :
            LET gm == TheRecord(i).granule_metadata
            IN /\ Cell(csv_file, i, "band_type") = CsvStr(gm.v["band_type"])
               /\ \A c \in Vocabulary \ {"band_type"} :
                     ~Supplies(gm, c) => Cell(csv_file, i, c) = <<>>

\* C3 amended: the same, except for the columns derived from the metadata:
\* system:time_start / system:time_end when it carries a time_start or a
\* beginning_date_time, EPSG when it carries a tile code.
C3_RoundTrip ==
    (Succeeded /\ FromRecords) =>
        \A i \in RoundTripCases :
            LET gm == TheRecord(i).granule_metadata
            IN /\ Cell(csv_file, i, "band_type") = CsvStr(gm.v["band_type"])
               /\ \A c \in Vocabulary \ ({"band_type"} \cup DerivedFrom(gm)) :
                     ~Supplies(gm, c) => Cell(csv_file, i, c) = <<>>
               /\ ("EPSG" \in DerivedFrom(gm) /\ ~Supplies(gm, "EPSG")) =>
                     Cell(csv_file, i, "EPSG") = get_epsg_from_mgrs(gm.v["mgrs_tile"].v)

\* a successful call on a table that held old band_type and EPSG values, with
\* a row matched by one record whose band_type differs from its file type
C3_Witness ==
    /\ Succeeded /\ FromRecords
    /\ last.before.header = HeaderEnhanced
    /\ \E i \in RoundTripCases :
          /\ TheRecord(i).granule_metadata = MetaBand
          /\ TheRecord(i).file_type # MetaBand.v["band_type"].v
          /\ Cell(last.before, i, "EPSG") = Old
          /\ Cell(csv_file, i, "band_type") = LST

\* C4: a second run on the table a first successful run produced, with the
\* same records and folders, leaves header, rows and cells as they were.
C4_Idempotent ==
    (Succeeded /\ prev_ret = "True") => csv_file = last.before

\* two successful runs in a row, the second one merging a record with a
\* numeric time_start into a row
C4_Witness ==
    /\ Succeeded /\ prev_ret = "True"
    /\ \E i \in DOMAIN last.out.populated :
          /\ last.out.populated[i] # last.out.initialized[i]
          /\ last.out.populated[i].v["system:time_start"].t = "int"
          /\ Cell(csv_file, i, "system:time_start") = <<"1735732800000">>

\* the call fails before the persist step: no file, a read error, or a
\* KeyError for id_no in the populate step
FailsEarly ==
    \/ ~last.before.exists
    \/ last.fault = "read"
    \/ /\ last.before.rows # <<>>
       /\ "id_no" \notin HeaderSet(last.before)
       /\ EvaluatesIdNo(last.before.rows, download_folders, downloaded_files)

\* C5: when the table file does not exist, or load or populate raise, the
\* call returns False and the file on disk is exactly as before the call.
C5_NoWriteOnEarlyFailure ==
    last.called =>
        /\ FailsEarly <=> last.out.stage \in {"missing", "load", "populate"}
        /\ FailsEarly => (~last.out.ret /\ csv_file = last.before)
        /\ ~last.before.exists => ~csv_file.exists

\* a call that raised KeyError in the populate step on an existing table
C5_Witness ==
    /\ last.called /\ last.out.stage = "populate"
    /\ last.before.exists /\ last.before.rows # <<>>
    /\ csv_file = last.before

\* C6: the call returns True only if load, initialize, populate and persist
\* all completed; a read error, a KeyError in populate, a write error or a
\* table with zero data rows yield False.
C6_ReturnValue ==
    last.called =>
        /\ last.out.ret \in BOOLEAN
        /\ last.out.ret <=> last.out.stage = "done"
        /\ last.fault # "none" => ~last.out.ret
        /\ FailsEarly => ~last.out.ret
        /\ (last.before.exists /\ last.before.rows = <<>>) => ~last.out.ret
        /\ last.out.ret =>
              /\ csv_file.exists /\ csv_file.rows # <<>>
              /\ csv_file.header = last.out.populated[1].k
              /\ \A i \in DOMAIN csv_file.rows :
                    csv_file.rows[i] = CellsOf(last.out.populated[i], csv_file.header)

\* a call on a table with a header and no data rows, without I/O error:
\* the persist step raises and the call returns False
C6_Witness ==
    /\ last.called /\ last.fault = "none"
    /\ last.before.exists /\ last.before.header # <<>> /\ last.before.rows = <<>>
    /\ last.out.stage = "persist" /\ ~last.out.ret

\* the last record that matches the row
LastMatch(row) ==
    CHOOSE n \in MatchingRecords(row) : \A m \in MatchingRecords(row) : m <= n

\* C7: in the from-download-records strategy the EPSG column of a matched
\* row is recomputed from the tile code of the metadata after the generic
\* merge, so it ends as get_epsg_from_mgrs(mgrs_tile) even when the metadata
\* carries another EPSG value.
C7_EpsgFromTileWins ==
    (ReachedPersist /\ FromRecords) =>
        \A i \in DOMAIN last.out.loaded :
            MatchingRecords(last.out.loaded[i]) # {} =>
                LET gm == downloaded_files[LastMatch(last.out.loaded[i])].granule_metadata
                IN Present(gm, "mgrs_tile") =>
                      last.out.populated[i].v["EPSG"] =
                          S(get_epsg_from_mgrs(gm.v["mgrs_tile"].v))

\* the files of the existing folders
ListedFiles ==
    UNION {{download_folders[n].files[m] : m \in DOMAIN download_folders[n].files} :
              n \in {n \in DOMAIN download_folders : download_folders[n].exists}}

FolderColumns == {"band_type", "mgrs_tile", "EPSG"}

\* C8 as stated: in the from-directory-scan strategy a row is modified only
\* when a listed file carries the tile pattern and contains the row's
\* id_no, and then only band_type, mgrs_tile and EPSG are set.
C8_Original ==
    (ReachedPersist /\ ~FromRecords) =>
        \A i \in DOMAIN last.out.populated :
            /\ last.out.populated[i] # last.out.initialized[i] =>
                  \E f \in ListedFiles :
                      /\ MgrsMatches(f) # {}
                      /\ IsSubstring(last.out.loaded[i].v["id_no"].v, f)
            /\ \A c \in KeySet(last.out.populated[i]) \ FolderColumns :
                  last.out.populated[i].v[c] = last.out.initialized[i].v[c]

\* C8 amended: a row is modified only when a listed file ends with .tif and
\* contains the row's id_no; then only band_type, mgrs_tile and EPSG are
\* set, mgrs_tile and EPSG only when such a file carries the tile pattern.
C8_FolderFrame ==
    (ReachedPersist /\ ~FromRecords) =>
        \A i \in DOMAIN last.out.populated :
            /\ last.out.populated[i] # last.out.initialized[i] =>
                  \E f \in ListedFiles :
                      /\ EndsWith(f, DotTif)
                      /\ IsSubstring(last.out.loaded[i].v["id_no"].v, f)
            /\ (\E c \in {"mgrs_tile", "EPSG"} :
                   last.out.populated[i].v[c] # last.out.initialized[i].v[c]) =>
                  \E f \in ListedFiles :
                      /\ EndsWith(f, DotTif)
                      /\ MgrsMatches(f) # {}
                      /\ IsSubstring(last.out.loaded[i].v["id_no"].v, f)
            /\ \A c \in KeySet(last.out.populated[i]) \ FolderColumns :
                  last.out.populated[i].v[c] = last.out.initialized[i].v[c]

\* a successful directory scan that left a row untouched although a listed
\* file that is no .tif carries the tile pattern and the row's id_no
C8_Witness ==
    /\ Succeeded /\ ~FromRecords
    /\ \E i \in DOMAIN last.out.populated :
          /\ last.out.populated[i] = last.out.initialized[i]
          /\ Has(last.out.loaded[i], "id_no")
          /\ \E f \in ListedFiles :
                /\ ~EndsWith(f, DotTif) /\ MgrsMatches(f) # {}
                /\ IsSubstring(last.out.loaded[i].v["id_no"].v, f)
    /\ \E i \in DOMAIN last.out.populated :
          last.out.populated[i].v["band_type"] = S(QC)

\* ------------------------------------------------------------------------
\* Properties of download_data
\* ------------------------------------------------------------------------
\* the URLs of the run whose filename ends with a configured suffix
MatchingUrls ==
    {p \in UNION {{<<g, u>> : u \in DOMAIN results[g].links} : g \in DOMAIN results} :
        MatchingSuffix(Filename(p[1], p[2]), FILE_TYPES) # 0}

UrlOf(p) == results[p[1]].links[p[2]]

\* what download_data did for a URL, in order
StepsFor(url) ==
    LET evs == SelectSeq(log, LAMBDA e : results[e.g].links[e.u] = url)
    IN [i \in DOMAIN evs |-> evs[i].what]

\* the state in which download_data found the target file of a URL
SeenFor(url) ==
    LET evs == SelectSeq(log, LAMBDA e :
                   results[e.g].links[e.u] = url /\ e.what = "check")
    IN evs[1].seen

IsPrefix(s, t) == Len(s) <= Len(t) /\ SubSeq(t, 1, Len(s)) = s

\* C9: for every URL whose filename ends with a configured suffix: a target
\* file with content means no fetch; a zero-byte target file is removed and
\* then fetched; a missing one is fetched; never more than one fetch per
\* URL, and the target file is absent when the fetch is issued.
C9_FetchPolicy ==
    /\ \A p \in MatchingUrls :
          LET steps == StepsFor(UrlOf(p))
          IN steps # <<>> =>
                /\ steps[1] = "check"
                /\ SeenFor(UrlOf(p)) = "full" => steps = <<"check", "skip">>
                /\ SeenFor(UrlOf(p)) = "empty" =>
                      \E end \in {"returned", "raised"} :
                          /\ IsPrefix(steps, <<"check", "remove", "fetch", end>>)
                          /\ Len(steps) >= 3
                /\ SeenFor(UrlOf(p)) = "absent" =>
                      \E end \in {"returned", "raised"} :
                          /\ IsPrefix(steps, <<"check", "fetch", end>>)
                          /\ Len(steps) >= 2
                /\ Cardinality({i \in DOMAIN steps : steps[i] = "fetch"}) <= 1
    /\ dl.pc = "download" => disk[Filename(dl.g, dl.u)] = "absent"
    /\ dl.pc = "done" => \A p \in MatchingUrls : StepsFor(UrlOf(p)) # <<>>

\* download_data returned after it found one zero-byte file, which it
\* removed and fetched once, one file with content and one file missing
C9_Witness ==
    /\ dl.pc = "done"
    /\ \E p \in MatchingUrls :
          /\ SeenFor(UrlOf(p)) = "empty"
          /\ \E end \in {"returned", "raised"} :
                StepsFor(UrlOf(p)) = <<"check", "remove", "fetch", end>>
    /\ \E p \in MatchingUrls : SeenFor(UrlOf(p)) = "full"
    /\ \E p \in MatchingUrls : SeenFor(UrlOf(p)) = "absent"

\* the steps that earn a record: the file was found with content, or the
\* fetch returned and left a file with content
Earns(e) ==
    \/ e.what = "check" /\ e.seen = "full"
    \/ e.what = "returned" /\ e.seen = "full"

\* C10: the list holds a record for a matching URL exactly when its file
\* was already present with content or was fetched and verified; a fetch
\* that raises or fails verification adds none, and the URLs and granules
\* after it are still processed.
C10_RecordsIffPresentOrVerified ==
    /\ LET earned == SelectSeq(log, Earns)
       IN downloaded_files = [i \in DOMAIN earned |->
                                 RecordFor(earned[i].g, earned[i].u)]
    /\ \A p \in MatchingUrls :
          Cardinality({i \in DOMAIN downloaded_files :
                          downloaded_files[i] = RecordFor(p[1], p[2])})
            = Cardinality({i \in DOMAIN log :
                              /\ UrlOf(<<log[i].g, log[i].u>>) = UrlOf(p)
                              /\ Earns(log[i])})
    /\ dl.pc = "done" =>
          \A g \in DOMAIN results : \A u \in DOMAIN results[g].links :
              \E i \in DOMAIN log : log[i].g = g /\ log[i].u = u

\* download_data returned after a fetch that raised and a fetch that failed
\* verification, and a later URL still earned its record
C10_Witness ==
    /\ dl.pc = "done"
    /\ \E i, j, k \in DOMAIN log :
          /\ i < k /\ j < k
          /\ log[i].what = "raised" /\ log[i].seen = "full"
          /\ log[j].what = "returned" /\ log[j].seen # "full"
          /\ log[k].what = "returned" /\ log[k].seen = "full"
    /\ Len(downloaded_files) = 1

\* ------------------------------------------------------------------------
\* Properties of a run of main()
\* ------------------------------------------------------------------------
Finished == run.pc \in {"done", "exit"}

Ran(what) == \E p \in DOMAIN trace : trace[p].what = what

Idx(what, i) ==
    {p \in DOMAIN trace : trace[p].what = what /\ trace[p].arg = i}

IsEnhance(e) == e.what \in {"enhance_records", "enhance_folders"}

EnhanceIdx(i) ==
    {p \in DOMAIN trace : IsEnhance(trace[p]) /\ trace[p].arg = i}

FolderSteps(i) == Idx("getmeta", i) \cup EnhanceIdx(i) \cup Idx("upload", i)

Failed(what, i) == \E p \in Idx(what, i) : ~trace[p].ok

\* C11: in a run with action "both", a failed Earthdata authentication
\* (netrc and interactive) with an Earth Engine authentication that would
\* succeed skips the download stage and still executes the upload stage; a
\* failed Earth Engine authentication after a successful Earthdata one skips
\* the upload stage and still executes the download stage; a stage never
\* runs without its own authentication having succeeded
C11_AuthFailureSkipsOnlyItsStage ==
    (Finished /\ run.action = "both") =>
        LET in == run.inputs[1]
        IN /\ (~in.netrc /\ ~in.interactive /\ in.gee)
                  => (~Ran("download_workflow") /\ Ran("upload_workflow"))
           /\ ((in.netrc \/ in.interactive) /\ ~in.gee)
                  => (Ran("download_workflow") /\ ~Ran("upload_workflow"))
           /\ Ran("download_workflow")
                  => \E p \in DOMAIN trace :
                         trace[p].what = "login" /\ trace[p].ok
           /\ Ran("upload_workflow")
                  => \E p \in DOMAIN trace :
                         trace[p].what = "gee" /\ trace[p].ok

\* C12: in upload_workflow a failing external command (metadata generation
\* or upload) aborts only its folder: upload_to_gee returns False for it,
\* no command is run twice for a folder, the upload command is never run
\* for a folder whose metadata generation failed, and once the workflow is
\* over every folder that exists and is non-empty has been processed
C12_FolderFailureIsLocal ==
    \A i \in 1..Len(RunTypes) :
        /\ Cardinality(Idx("getmeta", i)) <= 1
        /\ Cardinality(Idx("upload", i)) <= 1
        /\ Failed("getmeta", i)
               => (Idx("upload", i) = {} /\ EnhanceIdx(i) = {})
        /\ (Failed("getmeta", i) \/ Failed("upload", i))
               => \E p \in Idx("result", i) : ~trace[p].ok
        /\ (run.pc = "done" /\ Ran("upload_workflow"))
               => /\ Idx("folder", i) # {}
                  /\ \A p \in Idx("folder", i) :
                         trace[p].ok => Idx("getmeta", i) # {}

\* a finished run in which the command of the first folder failed and the
\* second folder was uploaded
C12_Witness ==
    /\ run.pc = "done"
    /\ Failed("getmeta", 1) \/ Failed("upload", 1)
    /\ \E p \in Idx("upload", 2) : trace[p].ok

\* C13 as stated: every fetch precedes every reconciliation, and every
\* reconciliation of the run precedes every upload command
C13_Original ==
    \A p, q \in DOMAIN trace :
        /\ (trace[p].what = "fetch" /\ IsEnhance(trace[q])) => p < q
        /\ (IsEnhance(trace[p]) /\ trace[q].what = "upload") => p < q

\* C13: the search precedes every fetch and every fetch precedes every
\* reconciliation; the folders are handled one after the other in the
\* configured order, and for each folder the metadata generation precedes
\* its reconciliation, which precedes its upload command
C13_StagesSequential ==
    /\ \A p, q \in DOMAIN trace :
           /\ (trace[p].what = "search" /\ trace[q].what = "fetch") => p < q
           /\ (trace[p].what = "fetch" /\ IsEnhance(trace[q])) => p < q
           /\ (trace[p].what = "fetch" /\ trace[q].what = "upload") => p < q
    /\ \A i \in 1..Len(RunTypes) :
           /\ \A p \in Idx("getmeta", i), q \in EnhanceIdx(i) : p < q
           /\ \A p \in EnhanceIdx(i), q \in Idx("upload", i) : p < q
           /\ \A j \in (i + 1)..Len(RunTypes) :
                  \A p \in FolderSteps(i), q \in FolderSteps(j) : p < q

\* a finished run with a fetch and two folders reconciled and uploaded
C13_Witness ==
    /\ run.pc = "done"
    /\ Ran("fetch")
    /\ EnhanceIdx(1) # {} /\ Idx("upload", 1) # {}
    /\ EnhanceIdx(2) # {} /\ Idx("upload", 2) # {}

\* C17: in a run with action "both" where the Earthdata authentication
\* succeeded and the Earth Engine authentication failed, the download
\* workflow runs only if the user answers 'y' to the prompt; for any other
\* answer neither workflow runs
C17_DownloadOnlyOnYes ==
    (Finished /\ run.action = "both") =>
        LET in == run.inputs[1]
        IN ((in.netrc \/ in.interactive) /\ ~in.gee) =>
               /\ Ran("download_workflow")
                      => StripLower(in.user_input) = "y"
               /\ StripLower(in.user_input) # "y"
                      => (~Ran("download_workflow")
                          /\ ~Ran("upload_workflow"))

\* C18: upload_to_gee runs the upload command for a folder only after the
\* reconciliation of that folder's table returned success; when the
\* reconciliation reports failure, no upload command is run for the folder
\* and upload_to_gee returns False
C18_UploadOnlyAfterReconcileSuccess ==
    \A i \in 1..Len(RunTypes) :
        /\ \A p \in Idx("upload", i) :
               \E q \in EnhanceIdx(i) : q < p /\ trace[q].ok
        /\ (\E q \in EnhanceIdx(i) : ~trace[q].ok)
               => /\ Idx("upload", i) = {}
                  /\ \A r \in Idx("result", i) : ~trace[r].ok

\* ------------------------------------------------------------------------
\* Properties of the extractors of metadata.py
\* ------------------------------------------------------------------------
\* C14: get_epsg_from_mgrs returns '' for an empty designator or one
\* shorter than 3 characters, and otherwise "EPSG326" + the first two
\* characters when the third character is one of NPQRSTUVWX, "EPSG327" + the
\* first two characters for any other third character ("18TUN" gives
\* "EPSG32618", "47MDU" gives "EPSG32747")
C14_EpsgCodec ==
    metadata.epsg # <<>> =>
        LET tile == granule.tile
            epsg == metadata.epsg[1]
        IN /\ Len(tile) < 3 => epsg = <<>>
           /\ Len(tile) >= 3 =>
                  epsg = (IF tile[3] \in {"N", "P", "Q", "R", "S", "T", "U",
                                          "V", "W", "X"}
                          THEN <<"E", "P", "S", "G", "3", "2", "6">>
                          ELSE <<"E", "P", "S", "G", "3", "2", "7">>)
                         \o <<tile[1], tile[2]>>
           /\ tile = <<"1", "8", "T", "U", "N">> =>
                  epsg = <<"E", "P", "S", "G", "3", "2", "6", "1", "8">>
           /\ tile = <<"4", "7", "M", "D", "U">> =>
                  epsg = <<"E", "P", "S", "G", "3", "2", "7", "4", "7">>

\* the codec applied to "47MDU"
C14_Witness ==
    /\ granule.tile = <<"4", "7", "M", "D", "U">>
    /\ metadata.epsg = << <<"E", "P", "S", "G", "3", "2", "7", "4", "7">> >>

\* the record has a non-empty calculated-orbit-domains list whose first
\* element has a begin-orbit field, and an orbit-parameters list whose first
\* element has an orbit number
BothOrbitSources ==
    LET umm == granule.orbits
    IN /\ Has(umm, "OrbitCalculatedSpatialDomains")
       /\ umm.v["OrbitCalculatedSpatialDomains"] # <<>>
       /\ Has(umm.v["OrbitCalculatedSpatialDomains"][1], "BeginOrbitNumber")
       /\ Has(umm, "OrbitParameters")
       /\ umm.v["OrbitParameters"] # <<>>
       /\ Has(umm.v["OrbitParameters"][1], "OrbitNumber")

BeginOrbit ==
    granule.orbits.v["OrbitCalculatedSpatialDomains"][1].v["BeginOrbitNumber"]

\* C15: whenever both sources are present orbit_number is the begin-orbit
\* value of the calculated-orbit-domains entry, never the orbit-parameters
\* value, whatever the begin-orbit value is (0 and '' included)
C15_BeginOrbitWins ==
    (metadata.orbit # <<>> /\ BothOrbitSources) =>
        metadata.orbit[1].v["orbit_number"] = BeginOrbit

\* the match of the pattern of a filename-derived field: <<group(1)>> or <<>>
GroupOf(field, ur) ==
    CASE field = "processing_ID" -> SuffixGroup(ur)
      [] field = "mgrs_tile" ->
             IF MgrsMatches(ur) = {} THEN <<>> ELSE <<MgrsGroup(ur)>>
      [] field = "orbit_number_from_filename" -> OrbitGroup(ur)
      [] field = "version_from_filename" -> VersionGroup(ur)
      [] field = "processing_level" -> LevelGroup(ur)
      [] field = "scene" -> SceneGroup(ur)
      [] field = "orbit_scene" -> OrbitSceneGroup(ur)

\* "ECOv002_L2T_LSTE_00048_003_18TUN_20250101T120000_0712_01"
ProviderUr ==
    <<"E", "C", "O", "v", "0", "0", "2", "_", "L", "2", "T", "_",
      "L", "S", "T", "E", "_", "0", "0", "0", "4", "8", "_", "0", "0", "3",
      "_", "1", "8", "T", "U", "N", "_", "2", "0", "2", "5", "0", "1", "0",
      "1", "T", "1", "2", "0", "0", "0", "0", "_", "0", "7", "1", "2", "_",
      "0", "1">>

DefaultedFields ==
    {"processing_ID", "mgrs_tile", "orbit_number_from_filename",
     "version_from_filename", "processing_level"}

\* field f of mapping m is the string the pattern of f captured, or '' when
\* the pattern does not match
StringOrDefault(m, f, ur) ==
    /\ Has(m, f)
    /\ m.v[f] = IF GroupOf(f, ur) = <<>> THEN Empty
                ELSE S(GroupOf(f, ur)[1])

\* scene is absent when its pattern does not match and an integer otherwise
SceneOrAbsent(m, ur) ==
    /\ Has(m, "scene") <=> SceneGroup(ur) # <<>>
    /\ Has(m, "scene") => m.v["scene"].t = "int"

\* C16 as stated: for a non-empty identifier every filename-derived field
\* but scene, orbit_scene included, is present, with '' when its pattern
\* does not match; scene alone is absent when unmatched, an integer otherwise
C16_Original ==
    (metadata.filename # <<>> /\ granule.ur # <<>>) =>
        LET m == metadata.filename[1]
        IN /\ \A f \in DefaultedFields \cup {"orbit_scene"} :
                  StringOrDefault(m, f, granule.ur)
           /\ SceneOrAbsent(m, granule.ur)

\* C16: for a non-empty identifier processing_ID, mgrs_tile,
\* orbit_number_from_filename, version_from_filename and processing_level
\* are each the string their own pattern captured, or '' when it does not
\* match; scene and orbit_scene are absent when their pattern does not
\* match; a matched scene is an integer, a matched orbit_scene a string
C16_FilenameFields ==
    (metadata.filename # <<>> /\ granule.ur # <<>>) =>
        LET m == metadata.filename[1]
        IN /\ \A f \in DefaultedFields : StringOrDefault(m, f, granule.ur)
           /\ SceneOrAbsent(m, granule.ur)
           /\ Has(m, "orbit_scene") <=> OrbitSceneGroup(granule.ur) # <<>>
           /\ Has(m, "orbit_scene") =>
                  m.v["orbit_scene"] = S(OrbitSceneGroup(granule.ur)[1])
           /\ granule.ur = ProviderUr =>
                  /\ m.v["version_from_filename"] = S(<<"0", "0", "2">>)
                  /\ m.v["processing_level"] = S(<<"L", "2", "T">>)
                  /\ m.v["orbit_number_from_filename"] =
                         S(<<"0", "0", "0", "4", "8">>)
                  /\ m.v["scene"] = [t |-> "int", v |-> <<"3">>]
                  /\ m.v["orbit_scene"] =
                         S(<<"0", "0", "0", "4", "8", "_", "0", "0", "3">>)
                  /\ m.v["mgrs_tile"] = S(<<"1", "8", "T", "U", "N">>)
                  /\ m.v["processing_ID"] =
                         S(<<"0", "7", "1", "2", "_", "0", "1">>)

\* an identifier with an orbit number and a level but no scene: scene and
\* orbit_scene are absent, the matched fields are set
C16_Witness ==
    /\ metadata.filename # <<>> /\ granule.ur # <<>>
    /\ LET m == metadata.filename[1]
       IN /\ m.v["orbit_number_from_filename"] =
                 S(<<"0", "0", "0", "4", "8">>)
          /\ m.v["processing_level"] = S(<<"L", "2", "T">>)
          /\ ~Has(m, "scene") /\ ~Has(m, "orbit_scene")

=============================================================================
